---- MODULE Spec2Model ----
\* LLSD codec library (John-Nagle/llsd): the value tree, the binary codec
\* (src/src/binary.rs), the XML text codec (src/src/xml.rs) and the
\* format-detecting dispatcher LLSDValue::parse (src/src/lib.rs).
\*
\* Bytes are integers 0..255, byte strings and texts are sequences of bytes.
\* A value tree is a record [t |-> variant, v |-> payload]:
\*   Undefined: v = 0            Boolean: v in BOOLEAN
\*   Integer:   v an i32         Date:    v an i64 (kept within 32 bits here)
\*   Real:      v the 8 bytes of f64::to_bits, most significant first
\*   UUID:      v 16 bytes       String, URI: v UTF-8 bytes   Binary: v bytes
\*   Map:       v a function from keys (UTF-8 byte strings) to value trees
\*   Array:     v a sequence of value trees
\* A Result is Ok(x) or Err(kind).
EXTENDS Integers, Sequences, FiniteSets, TLC

\* ---------------------------------------------------------------- bounds
MaxLen == 2          \* longest array / largest map the caller constructs
MaxCut == 3          \* most bytes a received message is truncated by
MaxDepth == 6        \* deepest nesting of composites in a received message

\* ------------------------------------------------------------ byte names
TagUndefined == 33   \* '!'
TagFalse == 48       \* '0'
TagTrue == 49        \* '1'
TagString == 115     \* 's'
TagURI == 108        \* 'l'
TagInteger == 105    \* 'i'
TagReal == 114       \* 'r'
TagUUID == 117       \* 'u'
TagBinary == 98      \* 'b'
TagDate == 100       \* 'd'
TagMap == 123        \* '{'
TagMapEnd == 125     \* '}'
TagArray == 91       \* '['
TagArrayEnd == 93    \* ']'
KeyMarker == 107     \* 'k', the key marker of the documented wire format

\* b"<? LLSD/Binary ?>\n"
LLSDBINARYPREFIX ==
    <<60, 63, 32, 76, 76, 83, 68, 47, 66, 105, 110, 97, 114, 121, 32, 63, 62, 10>>

\* binary::LLSDBINARYSENTINEL, used by lib.rs; binary.rs does not define it.
\* It is the sentinel of a full binary message (spec section 6).
LLSDBINARYSENTINEL == LLSDBINARYPREFIX

\* xml::LLSDXMLSENTINEL, used by lib.rs; xml.rs does not define it.
\* "<?xml", the XML declaration token (spec section 4.4).
LLSDXMLSENTINEL == <<60, 63, 120, 109, 108>>

\* -------------------------------------------------------------- results
Ok(x) == [ok |-> TRUE, val |-> x]
Err(kind) == [ok |-> FALSE, err |-> kind]

\* --------------------------------------------------------- value model
Undefined == [t |-> "Undefined", v |-> 0]
Boolean(b) == [t |-> "Boolean", v |-> b]
Real(bits) == [t |-> "Real", v |-> bits]
Integer(i) == [t |-> "Integer", v |-> i]
UUID(bs) == [t |-> "UUID", v |-> bs]
String(s) == [t |-> "String", v |-> s]
Date(d) == [t |-> "Date", v |-> d]
URI(s) == [t |-> "URI", v |-> s]
Binary(bs) == [t |-> "Binary", v |-> bs]
Map(f) == [t |-> "Map", v |-> f]
Array(s) == [t |-> "Array", v |-> s]

\* ------------------------------------------------------- byte helpers
Reverse(s) == [i \in 1..Len(s) |-> s[Len(s) + 1 - i]]

RECURSIVE Zeros(_)
Zeros(n) == IF n <= 0 THEN <<>> ELSE <<0>> \o Zeros(n - 1)

\* The n bytes of a two's-complement integer, least significant first
\* (i32::to_le_bytes, i64::to_le_bytes, u32::to_le_bytes).
RECURSIVE ToLeBytes(_, _)
ToLeBytes(x, n) ==
    IF n = 0 THEN <<>> ELSE <<x % 256>> \o ToLeBytes(x \div 256, n - 1)

\* f64::to_le_bytes on the bit pattern
F64ToLeBytes(bits) == Reverse(bits)

\* Mutant of F64FromLeBytes: the bytes are taken most significant first.
F64FromBeBytes(bs) == bs

\* f64::from_le_bytes
F64FromLeBytes(bs) == Reverse(bs)

\* Horner accumulation of bs[k], bs[k-1], ..., bs[1] onto acc.
RECURSIVE LeAcc(_, _, _)
LeAcc(bs, k, acc) == IF k = 0 THEN acc ELSE LeAcc(bs, k - 1, acc * 256 + bs[k])

\* u32::from_le_bytes
U32FromLeBytes(bs) == LeAcc(bs, Len(bs), 0)

\* i32::from_le_bytes, i64::from_le_bytes: the last byte carries the sign.
SignedFromLeBytes(bs) ==
    LET n == Len(bs)
    IN  LeAcc(bs, n - 1, IF bs[n] >= 128 THEN bs[n] - 256 ELSE bs[n])

\* std::str::from_utf8: TRUE iff bs is well-formed UTF-8.  Every byte that
\* is not a continuation byte starts a character of the length its value
\* announces, followed by exactly that many continuation bytes.
IsCont(b) == b >= 128 /\ b <= 191
Utf8Len(b) ==
    IF b < 128 THEN 1
    ELSE IF b >= 194 /\ b <= 223 THEN 2
    ELSE IF b >= 224 /\ b <= 239 THEN 3
    ELSE IF b >= 240 /\ b <= 244 THEN 4
    ELSE 0
Utf8Valid(bs) ==
    /\ bs # <<>> => ~IsCont(bs[1])
    /\ \A i \in DOMAIN bs :
          IsCont(bs[i]) \/
          LET b == bs[i]
              l == Utf8Len(b)
          IN  /\ l >= 1
              /\ i + l - 1 <= Len(bs)
              /\ \A k \in 1..(l - 1) : IsCont(bs[i + k])
              /\ i + l <= Len(bs) => ~IsCont(bs[i + l])
              /\ b = 224 => bs[i + 1] >= 160
              /\ b = 237 => bs[i + 1] <= 159
              /\ b = 240 => bs[i + 1] >= 144
              /\ b = 244 => bs[i + 1] <= 143

\* Mutant of MapInsert: an earlier value for the same key is kept.
MapInsertKeepFirst(dict, k, x) ==
    [key \in (DOMAIN dict) \cup {k} |-> IF key \in DOMAIN dict THEN dict[key] ELSE x]

\* HashMap::insert: the new value replaces an earlier one for the same key.
MapInsert(dict, k, x) ==
    [key \in (DOMAIN dict) \cup {k} |-> IF key = k THEN x ELSE dict[key]]
EmptyMap == [key \in {} |-> Undefined]

\* ----------------------------------------------- binary decode (binary.rs)
\* A cursor read yields [ok, bytes / val, pos]; pos counts the bytes consumed.
Fail(kind, pos) == [ok |-> FALSE, err |-> kind, pos |-> pos]

\* Cursor::read_exact: an error unless n bytes remain.
ReadExact(b, pos, n) ==
    IF pos + n <= Len(b)
    THEN [ok |-> TRUE, val |-> SubSeq(b, pos + 1, pos + n), pos |-> pos + n]
    ELSE Fail("UnexpectedEof", Len(b))

\* Mutant of ReadLossy: the cursor advances by the length asked for.
ReadLossy_overrun(b, pos, n) ==
    LET got == IF Len(b) - pos < n THEN Len(b) - pos ELSE n
    IN  [ok |-> TRUE, val |-> SubSeq(b, pos + 1, pos + got) \o Zeros(n - got),
         pos |-> pos + n]
\* Cursor::read into a zeroed n-byte buffer: copies what remains, never fails.
ReadLossy(b, pos, n) ==
    LET got == IF Len(b) - pos < n THEN Len(b) - pos ELSE n
    IN  [ok |-> TRUE, val |-> SubSeq(b, pos + 1, pos + got) \o Zeros(n - got),
         pos |-> pos + got]

read_u8(b, pos) ==
    LET r == ReadExact(b, pos, 1)
    IN  IF r.ok THEN [r EXCEPT !.val = r.val[1]] ELSE r

read_u32(b, pos) ==
    LET r == ReadExact(b, pos, 4)
    IN  IF r.ok THEN [r EXCEPT !.val = U32FromLeBytes(r.val)] ELSE r

read_i32(b, pos) ==
    LET r == ReadExact(b, pos, 4)
    IN  IF r.ok THEN [r EXCEPT !.val = SignedFromLeBytes(r.val)] ELSE r

read_i64(b, pos) ==
    LET r == ReadExact(b, pos, 8)
    IN  IF r.ok THEN [r EXCEPT !.val = SignedFromLeBytes(r.val)] ELSE r

read_f64(b, pos) ==
    LET r == ReadExact(b, pos, 8)
    IN  IF r.ok THEN [r EXCEPT !.val = F64FromLeBytes(r.val)] ELSE r

read_variable(b, pos) ==
    LET l == read_u32(b, pos)
    IN  IF l.ok THEN ReadLossy(b, l.pos, l.val) ELSE l

\* read_variable followed by std::str::from_utf8
read_str(b, pos) ==
    LET r == read_variable(b, pos)
    IN  IF r.ok /\ ~Utf8Valid(r.val) THEN Fail("Utf8Error", r.pos) ELSE r

\* Mutant of read_end: the byte after the entries is read but not compared.
read_end_unchecked(b, pos, endtag, kind) == read_u8(b, pos)
\* if read_u8(cursor)? != b'}' { return Err(..) }, and likewise for b']'
read_end(b, pos, endtag, kind) ==
    LET e == read_u8(b, pos)
    IN  IF e.ok /\ e.val # endtag THEN Fail(kind, e.pos) ELSE e

RECURSIVE parse_value(_, _), parse_map_entries(_, _, _, _), parse_array_entries(_, _, _, _)

\* the loop "for _ in 0..count" of the Map arm, count entries still to read
parse_map_entries(b, pos, count, dict) ==
    IF count = 0 THEN [ok |-> TRUE, val |-> dict, pos |-> pos]
    ELSE LET k == read_str(b, pos)
         IN  IF ~k.ok THEN k
             ELSE LET x == parse_value(b, k.pos)
                  IN  IF ~x.ok THEN x
                      ELSE parse_map_entries(b, x.pos, count - 1,
                                             MapInsert(dict, k.val, x.val))

\* the loop "for _ in 0..count" of the Array arm
parse_array_entries(b, pos, count, array) ==
    IF count = 0 THEN [ok |-> TRUE, val |-> array, pos |-> pos]
    ELSE LET x == parse_value(b, pos)
         IN  IF ~x.ok THEN x
             ELSE parse_array_entries(b, x.pos, count - 1, Append(array, x.val))

parse_value(b, pos) ==
    LET tc == read_u8(b, pos)
        typecode == tc.val
        p == tc.pos
        Wrap(r, Mk(_)) == IF r.ok THEN [r EXCEPT !.val = Mk(r.val)] ELSE r
        Close(r, endtag, Mk(_), kind) ==
            IF ~r.ok THEN r
            ELSE LET e == read_end(b, r.pos, endtag, kind)
                 IN  IF ~e.ok THEN e
                     ELSE [ok |-> TRUE, val |-> Mk(r.val), pos |-> e.pos]
    IN  IF ~tc.ok THEN tc
        ELSE CASE typecode = TagUndefined -> [ok |-> TRUE, val |-> Undefined, pos |-> p]
               [] typecode = TagFalse -> [ok |-> TRUE, val |-> Boolean(FALSE), pos |-> p]
               [] typecode = TagTrue -> [ok |-> TRUE, val |-> Boolean(TRUE), pos |-> p]
               [] typecode = TagString -> Wrap(read_str(b, p), String)
               [] typecode = TagURI -> Wrap(read_str(b, p), URI)
               [] typecode = TagInteger -> Wrap(read_i32(b, p), Integer)
               [] typecode = TagReal -> Wrap(read_f64(b, p), Real)
               [] typecode = TagUUID -> Wrap(ReadLossy(b, p, 16), UUID)
               [] typecode = TagBinary -> Wrap(read_variable(b, p), Binary)
               [] typecode = TagDate -> Wrap(read_i64(b, p), Date)
               [] typecode = TagMap ->
                    LET c == read_u32(b, p)
                    IN  IF ~c.ok THEN c
                        ELSE Close(parse_map_entries(b, c.pos, c.val, EmptyMap),
                                   TagMapEnd, Map, "MapNotEnded")
               [] typecode = TagArray ->
                    LET c == read_u32(b, p)
                    IN  IF ~c.ok THEN c
                        ELSE Close(parse_array_entries(b, c.pos, c.val, <<>>),
                                   TagArrayEnd, Array, "ArrayNotEnded")
               [] OTHER -> Fail("UnexpectedTypeCode", p)

\* What parse_value at pos does before it returns: the calls of parse_value
\* it makes, itself first, and the iterations of the two entry loops it
\* starts, each with the cursor it found, the cursor it left and whether it
\* returned a value.  An iteration that fails ends the loop and every
\* enclosing call.
Span(from, r) == [from |-> from, to |-> r.pos, ok |-> r.ok]
Work(calls, iters) == [calls |-> calls, iters |-> iters]
RECURSIVE parse_value_work(_, _), entries_work(_, _, _, _)
\* count iterations of "for _ in 0..count" from pos; map tells which loop
entries_work(b, pos, count, map) ==
    LET k == IF map THEN read_str(b, pos) ELSE [ok |-> TRUE, pos |-> pos]
        Entry(x, w) ==
            IF ~x.ok THEN Work(w.calls, <<Span(pos, x)>> \o w.iters)
            ELSE LET rest == entries_work(b, x.pos, count - 1, map)
                 IN  Work(w.calls \o rest.calls,
                          <<Span(pos, x)>> \o w.iters \o rest.iters)
    IN  IF count = 0 THEN Work(<<>>, <<>>)
        ELSE IF ~k.ok THEN Work(<<>>, <<Span(pos, k)>>)
        ELSE Entry(parse_value(b, k.pos), parse_value_work(b, k.pos))
parse_value_work(b, pos) ==
    LET tc == read_u8(b, pos)
        c == read_u32(b, tc.pos)
        Add(w) == Work(<<Span(pos, parse_value(b, pos))>> \o w.calls, w.iters)
    IN  IF tc.ok /\ tc.val \in {TagMap, TagArray} /\ c.ok
        THEN Add(entries_work(b, c.pos, c.val, tc.val = TagMap))
        ELSE Add(Work(<<>>, <<>>))

\* Result of a cursor-level outcome: the position is dropped.
AsResult(r) == IF r.ok THEN Ok(r.val) ELSE Err(r.err)

\* Mutant of binary_parse: the prefix is skipped without being compared.
binary_parse_unvalidated(b) ==
    LET prefixbuf == ReadExact(b, 0, Len(LLSDBINARYPREFIX))
    IN  IF ~prefixbuf.ok THEN Err(prefixbuf.err)
        ELSE AsResult(parse_value(b, prefixbuf.pos))

\* binary::parse
binary_parse(b) ==
    LET prefixbuf == ReadExact(b, 0, Len(LLSDBINARYPREFIX))
    IN  IF ~prefixbuf.ok THEN Err(prefixbuf.err)
        ELSE IF prefixbuf.val # LLSDBINARYPREFIX THEN Err("WrongHeader")
        ELSE AsResult(parse_value(b, prefixbuf.pos))

\* ----------------------------------------------- binary encode (binary.rs)
\* The order in which a HashMap yields its keys is unspecified: iter is 0 or
\* 1 and selects one enumeration of the key set or its reverse.
KeySeq(K) == CHOOSE s \in [1..Cardinality(K) -> K] : \A k \in K : \E i \in DOMAIN s : s[i] = k
MapIter(dict, iter) ==
    IF iter = 0 THEN KeySeq(DOMAIN dict) ELSE Reverse(KeySeq(DOMAIN dict))

LengthPrefixed(bs) == ToLeBytes(Len(bs), 4) \o bs

RECURSIVE generate_value(_, _), generate_entries(_, _, _), generate_items(_, _)

generate_entries(dict, keys, iter) ==
    IF keys = <<>> THEN <<>>
    ELSE LengthPrefixed(Head(keys)) \o generate_value(dict[Head(keys)], iter)
         \o generate_entries(dict, Tail(keys), iter)

generate_items(array, iter) ==
    IF array = <<>> THEN <<>>
    ELSE generate_value(Head(array), iter) \o generate_items(Tail(array), iter)

generate_value(val, iter) ==
    CASE val.t = "Undefined" -> <<TagUndefined>>
      [] val.t = "Boolean" -> IF val.v THEN <<TagTrue>> ELSE <<TagFalse>>
      [] val.t = "String" -> <<TagString>> \o LengthPrefixed(val.v)
      [] val.t = "URI" -> <<TagURI>> \o LengthPrefixed(val.v)
      [] val.t = "Integer" -> <<TagInteger>> \o ToLeBytes(val.v, 4)
      [] val.t = "Real" -> <<TagReal>> \o F64ToLeBytes(val.v)
      [] val.t = "UUID" -> <<TagUUID>> \o val.v
      [] val.t = "Binary" -> <<TagBinary>> \o LengthPrefixed(val.v)
      [] val.t = "Date" -> <<TagDate>> \o ToLeBytes(val.v, 8)
      [] val.t = "Map" ->
            <<TagMap>> \o ToLeBytes(Cardinality(DOMAIN val.v), 4)
            \o generate_entries(val.v, MapIter(val.v, iter), iter)
            \o <<TagMapEnd>>
      [] val.t = "Array" ->
            <<TagArray>> \o ToLeBytes(Len(val.v), 4)
            \o generate_items(val.v, iter) \o <<TagArrayEnd>>

\* binary::to_bytes
to_bytes(val, iter) == Ok(LLSDBINARYPREFIX \o generate_value(val, iter))


\* ------------------------------------------------------ text helpers
\* The bytes of the string literals of the source.
Lit(s) ==
    CASE s = "llsd" -> <<108, 108, 115, 100>>
      [] s = "null" -> <<110, 117, 108, 108>>
      [] s = "real" -> <<114, 101, 97, 108>>
      [] s = "integer" -> <<105, 110, 116, 101, 103, 101, 114>>
      [] s = "bool" -> <<98, 111, 111, 108>>
      [] s = "boolean" -> <<98, 111, 111, 108, 101, 97, 110>>
      [] s = "string" -> <<115, 116, 114, 105, 110, 103>>
      [] s = "uri" -> <<117, 114, 105>>
      [] s = "binary" -> <<98, 105, 110, 97, 114, 121>>
      [] s = "uuid" -> <<117, 117, 105, 100>>
      [] s = "date" -> <<100, 97, 116, 101>>
      [] s = "map" -> <<109, 97, 112>>
      [] s = "array" -> <<97, 114, 114, 97, 121>>
      [] s = "key" -> <<107, 101, 121>>
      [] s = "nan" -> <<110, 97, 110>>
      [] s = "NaN" -> <<78, 97, 78>>
      [] s = "true" -> <<116, 114, 117, 101>>
      [] s = "false" -> <<102, 97, 108, 115, 101>>
      [] s = "encoding" -> <<101, 110, 99, 111, 100, 105, 110, 103>>
      [] s = "base64" -> <<98, 97, 115, 101, 54, 52>>
      [] s = "base16" -> <<98, 97, 115, 101, 49, 54>>
      [] s = "base85" -> <<98, 97, 115, 101, 56, 53>>
      [] s = "&lt;" -> <<38, 108, 116, 59>>
      [] s = "&gt;" -> <<38, 103, 116, 59>>
      [] s = "&apos;" -> <<38, 97, 112, 111, 115, 59>>
      [] s = "&amp;" -> <<38, 97, 109, 112, 59>>
      [] s = "&quot;" -> <<38, 113, 117, 111, 116, 59>>
      [] s = "urn:uuid:" -> <<117, 114, 110, 58, 117, 117, 105, 100, 58>>

\* u8 whitespace of quick_xml (space, \t, \r, \n)
XmlSpace == {32, 9, 13, 10}
IsXmlSpace(b) == b \in XmlSpace
\* char::is_whitespace restricted to one-byte characters
Space == {32, 9, 10, 11, 12, 13}

\* The smallest member of a non-empty set of indices, or otherwise.
FirstOf(S, otherwise) ==
    IF S = {} THEN otherwise ELSE CHOOSE i \in S : \A j \in S : i <= j
LastOf(S, otherwise) ==
    IF S = {} THEN otherwise ELSE CHOOSE i \in S : \A j \in S : j <= i

\* bs without its leading / trailing bytes that are in W
TrimStartBy(bs, W) ==
    SubSeq(bs, FirstOf({i \in DOMAIN bs : bs[i] \notin W}, Len(bs) + 1), Len(bs))
TrimEndBy(bs, W) ==
    SubSeq(bs, 1, LastOf({i \in DOMAIN bs : bs[i] \notin W}, 0))

\* str::trim_start and str::trim
trim_start(bs) == TrimStartBy(bs, Space)
trim(bs) == TrimEndBy(TrimStartBy(bs, Space), Space)

\* str::starts_with / slice prefix comparison
StartsWith(bs, pre) ==
    Len(bs) >= Len(pre) /\ SubSeq(bs, 1, Len(pre)) = pre
EndsWith(bs, suf) ==
    Len(bs) >= Len(suf) /\ SubSeq(bs, Len(bs) - Len(suf) + 1, Len(bs)) = suf

\* Smallest index i >= from with bs[i] = b, or Len(bs) + 1.
IndexOf(bs, b, from) ==
    FirstOf({i \in from..Len(bs) : bs[i] = b}, Len(bs) + 1)

\* Smallest index i >= from at which the byte string pat starts, or Len(bs) + 1.
IndexOfSeq(bs, pat, from) ==
    FirstOf({i \in from..(Len(bs) - Len(pat) + 1) : SubSeq(bs, i, i + Len(pat) - 1) = pat},
            Len(bs) + 1)

\* Smallest index i >= from with a white space byte, or Len(bs) + 1.
IndexOfSpace(bs, from) ==
    FirstOf({i \in from..Len(bs) : IsXmlSpace(bs[i])}, Len(bs) + 1)

\* --------------------------------- the event reader (quick_xml::Reader)
\* Reader::from_str with trim_text(true), expand_empty_elements(true) and the
\* default check_end_names(true).  The events of a document, in order; after
\* the last one the reader yields Eof.  An Error event is a read_event Err.
EvStart(name, attrs) == [e |-> "Start", name |-> name, attrs |-> attrs]
EvEnd(name) == [e |-> "End", name |-> name, attrs |-> <<>>]
EvText(text) == [e |-> "Text", name |-> text, attrs |-> <<>>]
EvOther(kind) == [e |-> kind, name |-> <<>>, attrs |-> <<>>]

\* One step of the reader at position pos: the events it yields (none for
\* blank text, two for an empty element), the position after them, the open
\* elements, and whether the reader stops.  check is the reader's
\* check_end_names setting.
Step(evs, pos, opened, stop) ==
    [evs |-> evs, pos |-> pos, opened |-> opened, stop |-> stop]
next_event(bs, pos, opened, check) ==
    IF bs[pos] # 60
    THEN \* text up to the next '<', trimmed; empty text is no event
         LET j == IndexOf(bs, 60, pos)
             text == TrimEndBy(TrimStartBy(SubSeq(bs, pos, j - 1), XmlSpace), XmlSpace)
         IN  Step(IF text = <<>> THEN <<>> ELSE <<EvText(text)>>, j, opened, FALSE)
    ELSE IF StartsWith(SubSeq(bs, pos, Len(bs)), <<60, 33, 45, 45>>)
    THEN \* <!-- comment -->
         LET j == IndexOfSeq(bs, <<45, 45, 62>>, pos + 4)
         IN  IF j > Len(bs) THEN Step(<<EvOther("Error")>>, pos, opened, TRUE)
             ELSE Step(<<EvOther("Comment")>>, j + 3, opened, FALSE)
    ELSE LET j == IndexOf(bs, 62, pos)
             content == SubSeq(bs, pos + 1, j - 1)
         IN  IF j > Len(bs) THEN Step(<<EvOther("Error")>>, pos, opened, TRUE)
             ELSE IF content # <<>> /\ content[1] = 47
             THEN \* </name>
                  LET name == TrimEndBy(Tail(content), XmlSpace)
                  IN  IF check /\ (opened = <<>> \/ opened[Len(opened)] # name)
                      THEN Step(<<EvOther("Error")>>, pos, opened, TRUE)
                      ELSE Step(<<EvEnd(name)>>, j + 1,
                                SubSeq(opened, 1, Len(opened) - 1), FALSE)
             ELSE IF content # <<>> /\ content[1] = 33
             THEN \* <![CDATA[ ... ]]> and <!DOCTYPE ...>
                  Step(<<EvOther(IF StartsWith(content, <<33, 91>>)
                                 THEN "CData" ELSE "DocType")>>, j + 1, opened, FALSE)
             ELSE IF content # <<>> /\ content[1] = 63
             THEN \* <?xml ... ?> and other processing instructions
                  IF Len(content) < 2 \/ content[Len(content)] # 63
                  THEN Step(<<EvOther("Error")>>, pos, opened, TRUE)
                  ELSE Step(<<EvOther(IF StartsWith(content, <<63, 120, 109, 108>>)
                                      THEN "Decl" ELSE "PI")>>, j + 1, opened, FALSE)
             ELSE LET empty == content # <<>> /\ content[Len(content)] = 47
                      body == IF empty THEN SubSeq(content, 1, Len(content) - 1)
                              ELSE content
                      k == IndexOfSpace(body, 1)
                      name == SubSeq(body, 1, k - 1)
                      attrs == SubSeq(body, k, Len(body))
                  IN  IF empty
                      THEN Step(<<EvStart(name, attrs), EvEnd(name)>>, j + 1, opened, FALSE)
                      ELSE Step(<<EvStart(name, attrs)>>, j + 1,
                                Append(opened, name), FALSE)

\* The reader after one more read_event: the events yielded so far, the
\* position, the open elements, whether it has stopped.
advance(bs, reader, check) ==
    LET Add(step) ==
            Step(reader.evs \o step.evs, step.pos, step.opened, step.stop)
    IN  Add(next_event(bs, reader.pos, reader.opened, check))
\* The reader after up to n more read_event calls; at the end of the
\* document, or after an error, nothing more is yielded.
RECURSIVE advance_by(_, _, _, _)
advance_by(bs, reader, n, check) ==
    IF reader.stop \/ reader.pos > Len(bs) THEN reader
    ELSE IF n <= 1 THEN advance(bs, reader, check)
    ELSE advance_by(bs, advance_by(bs, reader, n \div 2, check), n - (n \div 2), check)

\* The events from position pos to the end of the document, or to the
\* first error: every read_event consumes at least one byte.
read_events_with(bs, pos, opened, check) ==
    advance_by(bs, Step(<<>>, pos, opened, FALSE), Len(bs), check).evs
\* the events read with the default check_end_names(true)
read_events(bs, pos, opened) == read_events_with(bs, pos, opened, TRUE)

\* Mutant of Reader: the names of end tags are not checked.
Reader_unchecked(xmlstr) == read_events_with(xmlstr, 1, <<>>, FALSE)
\* Reader::from_str(xmlstr): the events the reader will yield
Reader(xmlstr) == read_events(xmlstr, 1, <<>>)

\* reader.read_event at event index i
read_event(evs, i) == IF i > Len(evs) THEN EvOther("Eof") ELSE evs[i]

\* --------------------------------------- conversions of the text codec
\* A conversion yields Ok(x) or Err(kind).
MaxI32 == 2147483647
MinI32 == -2147483647 - 1

IsDigit(b) == b >= 48 /\ b <= 57
IsHex(b) == IsDigit(b) \/ (b >= 97 /\ b <= 102) \/ (b >= 65 /\ b <= 70)
HexVal(b) == IF IsDigit(b) THEN b - 48 ELSE IF b >= 97 THEN b - 87 ELSE b - 55
HexDigit(n) == IF n < 10 THEN 48 + n ELSE 87 + n

\* BytesText::unescape_and_decode: the five named entities and numeric
\* character references below 128; anything else after '&' is an error.
RECURSIVE NumRef(_, _, _)
NumRef(ds, base, acc) ==
    IF ds = <<>> THEN acc
    ELSE IF acc < 0 \/ acc > 1114111 THEN -1
    ELSE IF base = 10 /\ IsDigit(ds[1]) THEN NumRef(Tail(ds), base, acc * 10 + ds[1] - 48)
    ELSE IF base = 16 /\ IsHex(ds[1]) THEN NumRef(Tail(ds), base, acc * 16 + HexVal(ds[1]))
    ELSE -1
Entity(name) ==
    CASE name = <<108, 116>> -> 60
      [] name = <<103, 116>> -> 62
      [] name = <<97, 109, 112>> -> 38
      [] name = <<97, 112, 111, 115>> -> 39
      [] name = <<113, 117, 111, 116>> -> 34
      [] Len(name) >= 3 /\ name[1] = 35 /\ name[2] = 120 ->
            NumRef(SubSeq(name, 3, Len(name)), 16, 0)
      [] Len(name) >= 2 /\ name[1] = 35 /\ name[2] # 120 ->
            NumRef(Tail(name), 10, 0)
      [] OTHER -> -1
RECURSIVE unescape(_)
unescape(bs) ==
    IF bs = <<>> THEN Ok(<<>>)
    ELSE IF bs[1] # 38
    THEN LET r == unescape(Tail(bs))
         IN  IF r.ok THEN Ok(<<bs[1]>> \o r.val) ELSE r
    ELSE LET j == IndexOf(bs, 59, 2)
             c == IF j > Len(bs) THEN -1 ELSE Entity(SubSeq(bs, 2, j - 1))
             r == unescape(SubSeq(bs, j + 1, Len(bs)))
         IN  IF c < 0 \/ c > 127 THEN Err("EscapeError")
             ELSE IF r.ok THEN Ok(<<c>> \o r.val) ELSE r

\* xml_escape
RECURSIVE xml_escape(_)
xml_escape(bs) ==
    IF bs = <<>> THEN <<>>
    ELSE (CASE bs[1] = 60 -> Lit("&lt;")
            [] bs[1] = 62 -> Lit("&gt;")
            [] bs[1] = 39 -> Lit("&apos;")
            [] bs[1] = 38 -> Lit("&amp;")
            [] bs[1] = 34 -> Lit("&quot;")
            [] OTHER -> <<bs[1]>>) \o xml_escape(Tail(bs))

\* Vec<String>::join(" ")
RECURSIVE join(_)
join(texts) ==
    IF texts = <<>> THEN <<>>
    ELSE IF Len(texts) = 1 THEN texts[1]
    ELSE texts[1] \o <<32>> \o join(Tail(texts))

\* str::parse::<i32>: an optional sign, then one or more decimal digits;
\* a value outside i32 is an error.
RECURSIVE ParseDigits(_, _, _)
ParseDigits(ds, neg, acc) ==
    IF ds = <<>> THEN Ok(acc)
    ELSE LET d == ds[1] - 48
         IN  IF ~IsDigit(ds[1]) THEN Err("ParseIntError")
             ELSE IF neg
             THEN IF acc < MinI32 \div 10 + 1 \/ acc * 10 < MinI32 + d
                  THEN Err("ParseIntError")
                  ELSE ParseDigits(Tail(ds), neg, acc * 10 - d)
             ELSE IF acc > MaxI32 \div 10 \/ acc * 10 > MaxI32 - d
                  THEN Err("ParseIntError")
                  ELSE ParseDigits(Tail(ds), neg, acc * 10 + d)
parse_i32(text) ==
    IF text = <<>> THEN Err("ParseIntError")
    ELSE IF text[1] \in {43, 45}
    THEN IF Len(text) = 1 THEN Err("ParseIntError")
         ELSE ParseDigits(Tail(text), text[1] = 45, 0)
    ELSE ParseDigits(text, FALSE, 0)

\* i32::to_string
RECURSIVE NegDigits(_)
NegDigits(x) ==  \* the decimal digits of -x, for x <= 0
    LET d == (10 - (x % 10)) % 10
        rest == (x + d) \div 10
    IN  (IF rest = 0 THEN <<>> ELSE NegDigits(rest)) \o <<48 + d>>
i32_to_string(x) == IF x < 0 THEN <<45>> \o NegDigits(x) ELSE NegDigits(0 - x)

\* str::parse::<bool>
parse_bool(text) ==
    IF text = Lit("true") THEN Ok(TRUE)
    ELSE IF text = Lit("false") THEN Ok(FALSE)
    ELSE Err("ParseBoolError")

\* f64: the decimal literals and bit patterns of the reals of this model.
\* Display prints the shortest literal; FromStr accepts these literals and
\* "NaN"; any other text is outside the model and taken as a parse error.
NaNBits == <<127, 248, 0, 0, 0, 0, 0, 0>>
RealTable ==
    {<<<<48>>, Zeros(8)>>,
     <<<<49, 50, 51, 46, 53>>, <<64, 94, 224, 0, 0, 0, 0, 0>> >>,
     <<<<52, 53, 54>>, <<64, 124, 128, 0, 0, 0, 0, 0>> >>}
f64_to_string(bits) ==
    IF bits = NaNBits THEN Lit("NaN")
    ELSE (CHOOSE p \in RealTable : p[2] = bits)[1]
parse_f64(text) ==
    IF text = Lit("NaN") THEN Ok(NaNBits)
    ELSE IF \E p \in RealTable : p[1] = text
    THEN Ok((CHOOSE p \in RealTable : p[1] = text)[2])
    ELSE Err("ParseFloatError")

\* hex::decode
RECURSIVE hex_pairs(_)
hex_pairs(bs) ==
    IF bs = <<>> THEN <<>>
    ELSE <<16 * HexVal(bs[1]) + HexVal(bs[2])>> \o hex_pairs(SubSeq(bs, 3, Len(bs)))
hex_decode(bs) ==
    IF Len(bs) % 2 # 0 THEN Err("OddLength")
    ELSE IF \E i \in DOMAIN bs : ~IsHex(bs[i]) THEN Err("InvalidHexCharacter")
    ELSE Ok(hex_pairs(bs))

RECURSIVE hex_encode(_)
hex_encode(bs) ==
    IF bs = <<>> THEN <<>>
    ELSE <<HexDigit(bs[1] \div 16), HexDigit(bs[1] % 16)>> \o hex_encode(Tail(bs))

\* uuid::Uuid::parse_str: 32 hex digits, or the hyphenated form, either
\* optionally after "urn:uuid:".
uuid_parse_str(text) ==
    LET t == IF StartsWith(text, Lit("urn:uuid:"))
             THEN SubSeq(text, 10, Len(text)) ELSE text
        hyph == Len(t) = 36 /\ \A i \in {9, 14, 19, 24} : t[i] = 45
        digits == IF hyph
                  THEN SubSeq(t, 1, 8) \o SubSeq(t, 10, 13) \o SubSeq(t, 15, 18)
                       \o SubSeq(t, 20, 23) \o SubSeq(t, 25, 36)
                  ELSE t
    IN  IF Len(digits) # 32 \/ \E i \in DOMAIN digits : ~IsHex(digits[i])
        THEN Err("UuidError")
        ELSE Ok(hex_pairs(digits))

\* Uuid::to_string: lower-case hyphenated
uuid_to_string(bs) ==
    LET h == hex_encode(bs)
    IN  SubSeq(h, 1, 8) \o <<45>> \o SubSeq(h, 9, 12) \o <<45>> \o SubSeq(h, 13, 16)
        \o <<45>> \o SubSeq(h, 17, 20) \o <<45>> \o SubSeq(h, 21, 32)

\* base64 (standard alphabet)
B64Char(n) ==
    IF n < 26 THEN 65 + n ELSE IF n < 52 THEN 71 + n ELSE IF n < 62 THEN n - 4
    ELSE IF n = 62 THEN 43 ELSE 47
IsB64(b) == (b >= 65 /\ b <= 90) \/ (b >= 97 /\ b <= 122) \/ IsDigit(b) \/ b \in {43, 47}
B64Val(b) ==
    IF b >= 65 /\ b <= 90 THEN b - 65 ELSE IF b >= 97 THEN b - 71
    ELSE IF IsDigit(b) THEN b + 4 ELSE IF b = 43 THEN 62 ELSE 63

\* base64::encode: three bytes to four characters, '=' padding
RECURSIVE base64_encode(_)
base64_encode(bs) ==
    IF bs = <<>> THEN <<>>
    ELSE IF Len(bs) = 1
    THEN <<B64Char(bs[1] \div 4), B64Char((bs[1] % 4) * 16), 61, 61>>
    ELSE IF Len(bs) = 2
    THEN <<B64Char(bs[1] \div 4), B64Char((bs[1] % 4) * 16 + bs[2] \div 16),
           B64Char((bs[2] % 16) * 4), 61>>
    ELSE <<B64Char(bs[1] \div 4), B64Char((bs[1] % 4) * 16 + bs[2] \div 16),
           B64Char((bs[2] % 16) * 4 + bs[3] \div 64), B64Char(bs[3] % 64)>>
         \o base64_encode(SubSeq(bs, 4, Len(bs)))

\* base64::decode: padding is optional but, when present, completes the last
\* group of four; the unused bits of the last character must be zero.
RECURSIVE b64_groups(_)
b64_groups(cs) ==
    LET v(i) == B64Val(cs[i])
    IN  IF cs = <<>> THEN Ok(<<>>)
        ELSE IF Len(cs) = 1 THEN Err("InvalidLength")
        ELSE IF Len(cs) = 2
        THEN IF v(2) % 16 # 0 THEN Err("InvalidLastSymbol")
             ELSE Ok(<<v(1) * 4 + v(2) \div 16>>)
        ELSE IF Len(cs) = 3
        THEN IF v(3) % 4 # 0 THEN Err("InvalidLastSymbol")
             ELSE Ok(<<v(1) * 4 + v(2) \div 16, (v(2) % 16) * 16 + v(3) \div 4>>)
        ELSE LET r == b64_groups(SubSeq(cs, 5, Len(cs)))
             IN  IF ~r.ok THEN r
                 ELSE Ok(<<v(1) * 4 + v(2) \div 16, (v(2) % 16) * 16 + v(3) \div 4,
                           (v(3) % 4) * 64 + v(4)>> \o r.val)
base64_decode(text) ==
    LET body == TrimEndBy(text, {61})
        pad == Len(text) - Len(body)
    IN  IF \E i \in DOMAIN body : ~IsB64(body[i]) THEN Err("InvalidByte")
        ELSE IF pad > 2 \/ (pad > 0 /\ Len(text) % 4 # 0) THEN Err("InvalidByte")
        ELSE b64_groups(body)

\* ascii85::decode: optional <~ ~> wrapper, white space skipped, 'z' for
\* four zero bytes, a short last group padded with 'u'.  A group of five
\* digits is a number in base 85 written as four bytes, big-endian; a
\* group beyond u32 is reported as an error.
RECURSIVE DivDigits(_, _, _, _)
DivDigits(ds, base, div, rem) ==  \* <<quotient digits, remainder>>
    IF ds = <<>> THEN <<<<>>, rem>>
    ELSE LET cur == rem * base + ds[1]
             r == DivDigits(Tail(ds), base, div, cur % div)
         IN  <<<<cur \div div>> \o r[1], r[2]>>
A85Group(ds) ==
    LET s1 == DivDigits(ds, 85, 256, 0)
        s2 == DivDigits(s1[1], 85, 256, 0)
        s3 == DivDigits(s2[1], 85, 256, 0)
        s4 == DivDigits(s3[1], 85, 256, 0)
    IN  IF \E i \in 1..5 : s4[1][i] # 0 THEN Err("Overflow")
        ELSE Ok(<<s4[2], s3[2], s2[2], s1[2]>>)
RECURSIVE a85_groups(_)
a85_groups(cs) ==
    IF cs = <<>> THEN Ok(<<>>)
    ELSE IF cs[1] = 122
    THEN LET r == a85_groups(Tail(cs))
         IN  IF r.ok THEN Ok(Zeros(4) \o r.val) ELSE r
    ELSE LET n == IF Len(cs) < 5 THEN Len(cs) ELSE 5
             grp == SubSeq(cs, 1, n)
             digits == [i \in 1..5 |-> IF i <= n THEN grp[i] - 33 ELSE 84]
             g == A85Group(digits)
             r == a85_groups(SubSeq(cs, n + 1, Len(cs)))
         IN  IF \E i \in 1..n : grp[i] < 33 \/ grp[i] > 117 THEN
                 IF \E i \in 1..n : grp[i] = 122 THEN Err("MisalignedZ")
                 ELSE Err("OutOfRange")
             ELSE IF ~g.ok THEN g
             ELSE IF ~r.ok THEN r
             ELSE Ok(SubSeq(g.val, 1, n - 1) \o r.val)
ascii85_decode(text) ==
    LET a == IF StartsWith(text, <<60, 126>>) THEN SubSeq(text, 3, Len(text)) ELSE text
        b == IF EndsWith(a, <<126, 62>>) THEN SubSeq(a, 1, Len(a) - 2) ELSE a
    IN  a85_groups(SelectSeq(b, LAMBDA c : c \notin Space))

\* chrono: days since 1970-01-01 of a civil date and back
days_from_civil(y0, m, d) ==
    LET y == IF m <= 2 THEN y0 - 1 ELSE y0
        era == y \div 400
        yoe == y - era * 400
        doy == (153 * (IF m > 2 THEN m - 3 ELSE m + 9) + 2) \div 5 + d - 1
        doe == yoe * 365 + yoe \div 4 - yoe \div 100 + doy
    IN  era * 146097 + doe - 719468
civil_from_days(days) ==
    LET z == days + 719468
        era == z \div 146097
        doe == z - era * 146097
        yoe == (doe - doe \div 1460 + doe \div 36524 - doe \div 146096) \div 365
        doy == doe - (365 * yoe + yoe \div 4 - yoe \div 100)
        mp == (5 * doy + 2) \div 153
        d == doy - (153 * mp + 2) \div 5 + 1
        m == IF mp < 10 THEN mp + 3 ELSE mp - 9
    IN  [y |-> yoe + era * 400 + (IF m <= 2 THEN 1 ELSE 0), m |-> m, d |-> d]

\* zero-padded decimal of a natural number
RECURSIVE Pad(_, _)
Pad(x, width) ==
    IF width = 0 THEN <<>> ELSE Pad(x \div 10, width - 1) \o <<48 + (x % 10)>>

\* chrono::Utc.timestamp(v, 0).to_rfc3339_opts(SecondsFormat::Secs, true)
date_to_rfc3339(v) ==
    LET c == civil_from_days(v \div 86400)
        sod == v % 86400
    IN  Pad(c.y, 4) \o <<45>> \o Pad(c.m, 2) \o <<45>> \o Pad(c.d, 2) \o <<84>>
        \o Pad(sod \div 3600, 2) \o <<58>> \o Pad((sod % 3600) \div 60, 2) \o <<58>>
        \o Pad(sod % 60, 2) \o <<90>>

\* parse_date: chrono::DateTime::parse_from_rfc3339(s)?.timestamp()
\* YYYY-MM-DDTHH:MM:SS, an optional fraction, then Z or a +HH:MM / -HH:MM offset
RECURSIVE Num(_, _)
Num(ds, acc) == IF ds = <<>> THEN acc ELSE Num(Tail(ds), acc * 10 + ds[1] - 48)
DaysIn(y, m) ==
    IF m = 2 THEN (IF y % 4 = 0 /\ (y % 100 # 0 \/ y % 400 = 0) THEN 29 ELSE 28)
    ELSE IF m \in {4, 6, 9, 11} THEN 30 ELSE 31
RECURSIVE SkipDigits(_, _)
SkipDigits(s, i) == IF i <= Len(s) /\ IsDigit(s[i]) THEN SkipDigits(s, i + 1) ELSE i
parse_date(s) ==
    LET digitsAt(I) == \A i \in I : IsDigit(s[i])
        n(a, b) == Num(SubSeq(s, a, b), 0)
        shape == /\ Len(s) >= 20
                 /\ digitsAt({1, 2, 3, 4, 6, 7, 9, 10, 12, 13, 15, 16, 18, 19})
                 /\ s[5] = 45 /\ s[8] = 45 /\ s[11] \in {84, 116}
                 /\ s[14] = 58 /\ s[17] = 58
        z == IF Len(s) >= 21 /\ s[20] = 46 THEN SkipDigits(s, 21) ELSE 20
        fracOk == z = 20 \/ z > 21
        zone == SubSeq(s, z, Len(s))
        zoneOk == \/ zone \in {<<90>>, <<122>>}
                  \/ /\ Len(zone) = 6 /\ zone[1] \in {43, 45} /\ zone[4] = 58
                     /\ \A i \in {2, 3, 5, 6} : IsDigit(zone[i])
                     /\ Num(SubSeq(zone, 2, 3), 0) < 24 /\ Num(SubSeq(zone, 5, 6), 0) < 60
        offset == IF Len(zone) = 6
                  THEN (IF zone[1] = 45 THEN -1 ELSE 1)
                       * (Num(SubSeq(zone, 2, 3), 0) * 3600 + Num(SubSeq(zone, 5, 6), 0) * 60)
                  ELSE 0
        sec == IF n(18, 19) = 60 THEN 59 ELSE n(18, 19)
    IN  IF ~shape \/ ~fracOk \/ ~zoneOk THEN Err("ParseError")
        ELSE IF \/ n(6, 7) < 1 \/ n(6, 7) > 12
                \/ n(9, 10) < 1 \/ n(9, 10) > DaysIn(n(1, 4), n(6, 7))
                \/ n(12, 13) > 23 \/ n(15, 16) > 59 \/ n(18, 19) > 60
        THEN Err("ParseError")
        ELSE Ok(days_from_civil(n(1, 4), n(6, 7), n(9, 10)) * 86400
                + n(12, 13) * 3600 + n(15, 16) * 60 + sec - offset)

\* --------------------------------------------------- text decode (xml.rs)
\* Option
None == [some |-> FALSE, v |-> <<>>]
Some(x) == [some |-> TRUE, v |-> x]

\* get_attr: the value of the first attribute named key; attrs is the text
\* after the element name.  A malformed attribute met on the way is an error.
RECURSIVE get_attr(_, _)
get_attr(attrs, key) ==
    LET a == TrimStartBy(attrs, XmlSpace)
        eq == IndexOf(a, 61, 1)
        name == TrimEndBy(SubSeq(a, 1, eq - 1), XmlSpace)
        rest == TrimStartBy(SubSeq(a, eq + 1, Len(a)), XmlSpace)
        close == IndexOf(rest, rest[1], 2)
        v == unescape(SubSeq(rest, 2, close - 1))
    IN  IF a = <<>> THEN Ok(None)
        ELSE IF eq > Len(a) \/ name = <<>> \/ rest = <<>> THEN Err("AttrError")
        ELSE IF rest[1] \notin {34, 39} \/ close > Len(rest) THEN Err("AttrError")
        ELSE IF name # key THEN get_attr(SubSeq(rest, close + 1, Len(rest)), key)
        ELSE IF ~v.ok THEN v
        ELSE Ok(Some(v.val))

\* Mutant of decode_as: an encoding that is not known is taken as base64.
decode_as_lenient(encoding, s) ==
    IF encoding = Lit("base16") THEN hex_decode(s)
    ELSE IF encoding = Lit("base85") THEN ascii85_decode(s)
    ELSE base64_decode(s)

\* the match on the encoding attribute in parse_binary
decode_as(encoding, s) ==
    IF encoding = Lit("base64") THEN base64_decode(s)
    ELSE IF encoding = Lit("base16") THEN hex_decode(s)
    ELSE IF encoding = Lit("base85") THEN ascii85_decode(s)
    ELSE Err("UnknownEncoding")

parse_binary(s, attrs) ==
    LET Decode(a) ==
            IF ~a.ok THEN a
            ELSE decode_as(IF a.val.some THEN a.val.v ELSE Lit("base64"), s)
    IN  Decode(get_attr(attrs, Lit("encoding")))

\* the conversion of parse_primitive_value once the end tag is read
PrimitiveOf(starttag, text, attrs) ==
    LET Wrap(r, Mk(_)) == IF r.ok THEN Ok(Mk(r.val)) ELSE r
        lower == [i \in DOMAIN text |->
                    IF text[i] >= 65 /\ text[i] <= 90 THEN text[i] + 32 ELSE text[i]]
    IN  CASE starttag = Lit("null") -> Ok(Undefined)
          [] starttag = Lit("real") ->
                Wrap(parse_f64(IF lower = Lit("nan") THEN Lit("NaN") ELSE text), Real)
          [] starttag = Lit("integer") -> Wrap(parse_i32(text), Integer)
          [] starttag = Lit("bool") -> Wrap(parse_bool(text), Boolean)
          [] starttag = Lit("string") -> Ok(String(trim(text)))
          [] starttag = Lit("uri") -> Ok(String(trim(text)))
          [] starttag = Lit("uuid") -> Wrap(uuid_parse_str(trim(text)), UUID)
          [] starttag = Lit("date") -> Wrap(parse_date(text), Date)
          [] starttag = Lit("binary") -> Wrap(parse_binary(text, attrs), Binary)
          [] OTHER -> Err("UnexpectedPrimitive")

\* parse_primitive_value: i is the index of the next event, texts the text
\* accumulated so far
RECURSIVE parse_primitive_value(_, _, _, _, _)
parse_primitive_value(evs, i, starttag, attrs, texts) ==
    LET ev == read_event(evs, i)
        u == unescape(ev.name)
        At(r, pos) == IF r.ok THEN [ok |-> TRUE, val |-> r.val, pos |-> pos]
                      ELSE Fail(r.err, pos)
    IN  CASE ev.e = "Text" ->
                IF ~u.ok THEN Fail(u.err, i + 1)
                ELSE parse_primitive_value(evs, i + 1, starttag, attrs, Append(texts, u.val))
          [] ev.e = "End" ->
                IF starttag # ev.name THEN Fail("UnmatchedTags", i + 1)
                ELSE At(PrimitiveOf(starttag, join(texts), attrs), i + 1)
          [] ev.e = "Eof" -> Fail("UnexpectedEndOfData", i)
          [] ev.e = "Comment" -> parse_primitive_value(evs, i + 1, starttag, attrs, texts)
          [] ev.e = "Error" -> Fail("ParseError", i)
          [] OTHER -> Fail("UnexpectedValue", i + 1)

\* parse_array
parse_array(evs, i) == Fail("Unimplemented", i)

RECURSIVE xml_parse_value(_, _, _, _), parse_map(_, _, _), parse_map_entry(_, _, _)

\* parse_map_entry: yields <<key, value>>
parse_map_entry(evs, i, texts) ==
    LET ev == read_event(evs, i)
        u == unescape(ev.name)
        k == trim(join(texts))
        nx == read_event(evs, i + 1)
        Entry(x) == IF ~x.ok THEN x
                    ELSE [ok |-> TRUE, val |-> <<k, x.val>>, pos |-> x.pos]
    IN  CASE ev.e = "Start" -> Fail("ExpectedKey", i + 1)
          [] ev.e = "Text" ->
                IF ~u.ok THEN Fail(u.err, i + 1)
                ELSE parse_map_entry(evs, i + 1, Append(texts, u.val))
          [] ev.e = "End" ->
                IF ev.name # Lit("key") THEN Fail("UnmatchedTags", i + 1)
                ELSE IF nx.e # "Start" THEN Fail("UnexpectedMapEntry", i + 2)
                ELSE Entry(xml_parse_value(evs, i + 2, nx.name, nx.attrs))
          [] ev.e = "Eof" -> Fail("UnexpectedEndOfData", i)
          [] ev.e = "Comment" -> parse_map_entry(evs, i + 1, texts)
          [] ev.e = "Error" -> Fail("ParseError", i)
          [] OTHER -> Fail("UnexpectedMapEntry", i + 1)

\* Mutant of parse_map: at Eof the map accumulated so far is returned.
RECURSIVE parse_map_lenient(_, _, _)
parse_map_lenient(evs, i, map) ==
    LET ev == read_event(evs, i)
        u == unescape(ev.name)
        Insert(kv) == IF ~kv.ok THEN kv
                      ELSE parse_map_lenient(evs, kv.pos,
                                             MapInsert(map, kv.val[1], kv.val[2]))
    IN  CASE ev.e = "Start" ->
                IF ev.name # Lit("key") THEN Fail("ExpectedKey", i + 1)
                ELSE Insert(parse_map_entry(evs, i + 1, <<>>))
          [] ev.e = "Text" ->
                IF ~u.ok THEN Fail(u.err, i + 1) ELSE parse_map_lenient(evs, i + 1, map)
          [] ev.e = "End" ->
                IF ev.name # Lit("map") THEN Fail("UnmatchedTags", i + 1)
                ELSE [ok |-> TRUE, val |-> Map(map), pos |-> i + 1]
          [] ev.e = "Eof" -> [ok |-> TRUE, val |-> Map(map), pos |-> i]
          [] ev.e = "Comment" -> parse_map_lenient(evs, i + 1, map)
          [] ev.e = "Error" -> Fail("ParseError", i)
          [] OTHER -> Fail("UnexpectedMap", i + 1)

\* parse_map: map is the HashMap accumulated so far
parse_map(evs, i, map) ==
    LET ev == read_event(evs, i)
        u == unescape(ev.name)
        Insert(kv) == IF ~kv.ok THEN kv
                      ELSE parse_map(evs, kv.pos, MapInsert(map, kv.val[1], kv.val[2]))
    IN  CASE ev.e = "Start" ->
                IF ev.name # Lit("key") THEN Fail("ExpectedKey", i + 1)
                ELSE Insert(parse_map_entry(evs, i + 1, <<>>))
          [] ev.e = "Text" ->
                IF ~u.ok THEN Fail(u.err, i + 1) ELSE parse_map(evs, i + 1, map)
          [] ev.e = "End" ->
                IF ev.name # Lit("map") THEN Fail("UnmatchedTags", i + 1)
                ELSE [ok |-> TRUE, val |-> Map(map), pos |-> i + 1]
          [] ev.e = "Eof" -> Fail("UnexpectedEndOfData", i)
          [] ev.e = "Comment" -> parse_map(evs, i + 1, map)
          [] ev.e = "Error" -> Fail("ParseError", i)
          [] OTHER -> Fail("UnexpectedMap", i + 1)

\* xml::parse_value, entered with the start tag read
xml_parse_value(evs, i, starttag, attrs) ==
    IF starttag \in {Lit("null"), Lit("real"), Lit("integer"), Lit("bool"),
                     Lit("string"), Lit("uri"), Lit("binary"), Lit("uuid"), Lit("date")}
    THEN parse_primitive_value(evs, i, starttag, attrs, <<>>)
    ELSE IF starttag = Lit("map") THEN parse_map(evs, i, EmptyMap)
    ELSE IF starttag = Lit("array") THEN parse_array(evs, i)
    ELSE Fail("UnknownDataType", i)

\* Mutant of xml_parse_loop: once a value is stored, a Start event that is
\* not <llsd> is skipped like text, so the first root value is returned.
RECURSIVE xml_parse_loop_first(_, _, _)
xml_parse_loop_first(evs, i, output) ==
    LET ev == read_event(evs, i)
        nx == read_event(evs, i + 1)
        Found(x) == IF ~x.ok THEN Err(x.err)
                    ELSE xml_parse_loop_first(evs, x.pos, Some(x.val))
    IN  CASE ev.e = "Start" /\ ~(output.some /\ ev.name # Lit("llsd")) ->
                IF ev.name # Lit("llsd") THEN Err("ExpectedLlsd")
                ELSE IF output.some THEN Err("MoreThanOneLlsdBlock")
                ELSE IF nx.e # "Start" THEN Err("ExpectedLlsdData")
                ELSE Found(xml_parse_value(evs, i + 2, nx.name, nx.attrs))
          [] ev.e = "Eof" ->
                IF output.some THEN Ok(output.v) ELSE Err("NoLlsdBlock")
          [] ev.e = "Error" -> Err("ReaderError")
          [] OTHER -> xml_parse_loop_first(evs, i + 1, output)

\* the outer loop of xml::parse; output is the Option found so far
RECURSIVE xml_parse_loop(_, _, _)
xml_parse_loop(evs, i, output) ==
    LET ev == read_event(evs, i)
        nx == read_event(evs, i + 1)
        Found(x) == IF ~x.ok THEN Err(x.err)
                    ELSE xml_parse_loop(evs, x.pos, Some(x.val))
    IN  CASE ev.e = "Start" ->
                IF ev.name # Lit("llsd") THEN Err("ExpectedLlsd")
                ELSE IF output.some THEN Err("MoreThanOneLlsdBlock")
                ELSE IF nx.e # "Start" THEN Err("ExpectedLlsdData")
                ELSE Found(xml_parse_value(evs, i + 2, nx.name, nx.attrs))
          [] ev.e = "Eof" ->
                IF output.some THEN Ok(output.v) ELSE Err("NoLlsdBlock")
          [] ev.e = "Error" -> Err("ReaderError")
          [] OTHER -> xml_parse_loop(evs, i + 1, output)

\* xml::parse
xml_parse(xmlstr) == xml_parse_loop(Reader(xmlstr), 1, None)

\* --------------------------------------------------- text encode (xml.rs)
\* tagvalue: <tag>escaped text</tag>
tagvalue(tag, text) ==
    <<60>> \o tag \o <<62>> \o xml_escape(text) \o <<60, 47>> \o tag \o <<62>>

\* xml::generate_value: the bytes written, or the error for a composite
xml_generate_value(val, spaces, indent) ==
    CASE val.t = "Undefined" -> Ok(tagvalue(Lit("null"), <<>>))
      [] val.t = "Boolean" ->
            Ok(tagvalue(Lit("boolean"), IF val.v THEN Lit("true") ELSE Lit("false")))
      [] val.t = "String" -> Ok(tagvalue(Lit("string"), val.v))
      [] val.t = "URI" -> Ok(tagvalue(Lit("string"), val.v))
      [] val.t = "Integer" -> Ok(tagvalue(Lit("integer"), i32_to_string(val.v)))
      [] val.t = "Real" -> Ok(tagvalue(Lit("real"), f64_to_string(val.v)))
      [] val.t = "UUID" -> Ok(tagvalue(Lit("uuid"), uuid_to_string(val.v)))
      [] val.t = "Binary" -> Ok(tagvalue(Lit("binary"), base64_encode(val.v)))
      [] val.t = "Date" -> Ok(tagvalue(Lit("date"), date_to_rfc3339(val.v)))
      [] OTHER -> Err("Unreachable")

\* xml::pretty and xml::dump
pretty(val, spaces) == xml_generate_value(val, spaces, 0)
dump(val) == pretty(val, 0)

\* ------------------------------------------------------ dispatcher (lib.rs)
\* Which return statement of LLSDValue::parse a buffer reaches.
LLSDValue_route(m) ==
    IF Len(m) >= Len(LLSDBINARYSENTINEL)
       /\ SubSeq(m, 1, Len(LLSDBINARYSENTINEL)) = LLSDBINARYSENTINEL
    THEN "binary"
    ELSE IF Len(m) > 1 /\ m[1] = m[Len(m)] /\ m[1] \in {TagMap, TagArray}
    THEN "binary_whole"
    ELSE IF ~Utf8Valid(m) THEN "utf8_error"
    ELSE IF StartsWith(trim_start(m), LLSDXMLSENTINEL) THEN "xml"
    ELSE "not_recognized"

\* The length of the diagnostic snippet, in characters.
SnippetChars == 60

\* Mutant of snippet: the text is cut after SnippetChars bytes.
snippet_bytes(msgstring) ==
    SubSeq(msgstring, 1, IF Len(msgstring) < SnippetChars THEN Len(msgstring)
                         ELSE SnippetChars)
\* msgstring.chars().zip(0..60).map(|(c,_)| c).collect::<String>(): the
\* characters of msgstring, each a lead byte with its continuation bytes,
\* paired with 0..59; the pairs that exist are collected again.
snippet(msgstring) ==
    LET starts == {i \in DOMAIN msgstring : ~IsCont(msgstring[i])}
        taken == {i \in starts :
                    Cardinality({j \in starts : j < i}) < SnippetChars}
    IN  [i \in 1..Cardinality({k \in DOMAIN msgstring :
                                 \E c \in taken :
                                    /\ c <= k
                                    /\ \A j \in (c + 1)..k : IsCont(msgstring[j])})
            |-> msgstring[i]]

\* Err(anyhow!("LLSD format not recognized: {:?}", snippet))
NotRecognized(text) == [ok |-> FALSE, err |-> "NotRecognized", snippet |-> text]

\* Mutant of LLSDValue_parse: when the binary decoder fails on a buffer
\* that starts with the sentinel, the later routes are tried.
LLSDValue_parse_fallback(m) ==
    LET Later ==
            IF Len(m) > 1 /\ m[1] = m[Len(m)] /\ m[1] \in {TagMap, TagArray}
            THEN binary_parse(m)
            ELSE IF ~Utf8Valid(m) THEN Err("Utf8Error")
            ELSE IF StartsWith(trim_start(m), LLSDXMLSENTINEL) THEN xml_parse(m)
            ELSE NotRecognized(snippet(m))
        Try(r) == IF r.ok THEN r ELSE Later
    IN  IF StartsWith(m, LLSDBINARYSENTINEL)
        THEN Try(binary_parse(SubSeq(m, Len(LLSDBINARYSENTINEL) + 1, Len(m))))
        ELSE Later
\* LLSDValue::parse
LLSDValue_parse(m) ==
    LET route == LLSDValue_route(m)
    IN  CASE route = "binary" ->
                binary_parse(SubSeq(m, Len(LLSDBINARYSENTINEL) + 1, Len(m)))
          [] route = "binary_whole" -> binary_parse(m)
          [] route = "utf8_error" -> Err("Utf8Error")
          [] route = "xml" -> xml_parse(m)
          [] OTHER -> NotRecognized(snippet(m))

\* ------------------------------------------------- what the caller builds
\* "a", "b": map keys
Keys == {<<97>>, <<98>>}

NilUuid == Zeros(16)
\* 67153d5b-3659-afb4-8510-adda2c034649
SomeUuid == <<103, 21, 61, 91, 54, 89, 175, 180, 133, 16, 173, 218, 44, 3, 70, 73>>

\* f64::to_bits of 0.0, 123.5 and 456.0, most significant byte first
RealBits == {Zeros(8), <<64, 94, 224, 0, 0, 0, 0, 0>>, <<64, 124, 128, 0, 0, 0, 0, 0>>}

\* "", "a", "Hello", "e-acute" (two bytes of UTF-8)
Texts == {<<>>, <<97>>, <<72, 101, 108, 108, 111>>, <<195, 169>>}

Prims ==
    {Undefined, Boolean(FALSE), Boolean(TRUE)}
    \cup {Integer(i) : i \in {0, 1, -1, 42, 999, 2147483647, -2147483647 - 1}}
    \cup {Real(r) : r \in RealBits}
    \cup {UUID(u) : u \in {NilUuid, SomeUuid}}
    \cup {String(s) : s \in Texts}
    \cup {URI(s) : s \in {<<97>>}}
    \cup {Date(d) : d \in {0, 1138804193, -1}}
    \cup {Binary(bs) : bs \in {<<>>, <<15, 161>>, <<0>>}}

SeqsUpTo(S, n) == UNION {[1..k -> S] : k \in 0..n}
MapsOver(S, n) ==
    UNION {[K -> S] : K \in {K \in SUBSET Keys : Cardinality(K) <= n}}

\* children of a composite; composites of these are the trees of depth one
Leaves == {Integer(42), Real(<<64, 94, 224, 0, 0, 0, 0, 0>>), String(<<97>>)}
Flat ==
    {Array(s) : s \in SeqsUpTo(Leaves, MaxLen)}
    \cup {Map(f) : f \in MapsOver(Leaves, MaxLen)}
\* children of the trees of depth two
Inner == {Integer(42), Array(<<>>), Array(<<String(<<97>>)>>),
          Map([k \in {<<97>>} |-> Integer(999)]), Map(EmptyMap)}
Nested ==
    {Array(s) : s \in SeqsUpTo(Inner, MaxLen)}
    \cup {Map(f) : f \in MapsOver(Inner, MaxLen)}

Values == Prims \cup Flat \cup Nested

\* ------------------------------------------------ what the caller receives
\* An entry list of a map literal: <<key, value>> pairs, keys may repeat.
EntryLists == SeqsUpTo(Keys \X Leaves, MaxLen) \ {<<>>}

\* A binary map literal in the framing binary::parse reads: '{', the entry
\* count, for each entry the length-prefixed key and the value, '}'.
RECURSIVE BinaryEntries(_)
BinaryEntries(entries) ==
    IF entries = <<>> THEN <<>>
    ELSE LengthPrefixed(entries[1][1]) \o generate_value(entries[1][2], 0)
         \o BinaryEntries(Tail(entries))
BinaryMapLiteral(entries) ==
    LLSDBINARYPREFIX \o <<TagMap>> \o ToLeBytes(Len(entries), 4)
    \o BinaryEntries(entries) \o <<TagMapEnd>>

\* <?xml version="1.0" encoding="UTF-8"?>\n
XmlDeclaration ==
    <<60, 63, 120, 109, 108, 32, 118, 101, 114, 115, 105, 111, 110, 61, 34, 49, 46,
      48, 34, 32, 101, 110, 99, 111, 100, 105, 110, 103, 61, 34, 85, 84, 70, 45, 56,
      34, 63, 62, 10>>
Element(name, content) ==
    <<60>> \o name \o <<62>> \o content \o <<60, 47>> \o name \o <<62>>
\* the element of a leaf value, as in the documents of xmlparsetest1
LeafElement(v) ==
    CASE v.t = "Integer" -> Element(Lit("integer"), i32_to_string(v.v))
      [] v.t = "Real" -> Element(Lit("real"), f64_to_string(v.v))
      [] v.t = "String" -> Element(Lit("string"), v.v)
RECURSIVE TextEntries(_)
TextEntries(entries) ==
    IF entries = <<>> THEN <<>>
    ELSE Element(Lit("key"), entries[1][1]) \o LeafElement(entries[1][2])
         \o <<10>> \o TextEntries(Tail(entries))
TextMapLiteral(entries) ==
    XmlDeclaration
    \o Element(Lit("llsd"), <<10>> \o Element(Lit("map"), <<10>> \o TextEntries(entries)))

\* A document: the declaration and the <llsd> wrapper around body.
Document(body) == XmlDeclaration \o Element(Lit("llsd"), body)
\* <open>content</close>
Tagged(open, close, content) ==
    <<60>> \o open \o <<62>> \o content \o <<60, 47>> \o close \o <<62>>
\* "complex", the element name of the malformed document of testllsdvalue
Complex == <<99, 111, 109, 112, 108, 101, 120>>

\* Documents in which one element is closed under another name: a primitive
\* at the root, a key, a primitive in a map, a map, an array, the wrapper.
MismatchDocument(where, close) ==
    LET one == Element(Lit("integer"), <<49>>)
        key == Element(Lit("key"), <<97>>)
    IN  CASE where = "primitive" -> Document(Tagged(Lit("integer"), close, <<50>>))
          [] where = "key" ->
                Document(Element(Lit("map"), Tagged(Lit("key"), close, <<97>>) \o one))
          [] where = "entry" ->
                Document(Element(Lit("map"), key \o Tagged(Lit("integer"), close, <<49>>)))
          [] where = "map" -> Document(Tagged(Lit("map"), close, key \o one))
          [] where = "array" -> Document(Tagged(Lit("array"), close, one))
          [] where = "llsd" -> XmlDeclaration \o Tagged(Lit("llsd"), close, one)

\* The document of an array of leaf values.
RECURSIVE TextItems(_)
TextItems(items) ==
    IF items = <<>> THEN <<>>
    ELSE LeafElement(items[1]) \o TextItems(Tail(items))
TextArrayLiteral(items) == Document(Element(Lit("array"), TextItems(items)))

\* The element name of each variant in the text format; the empty marker
\* is taken to be this codec's <null>.
ElementName(variant) ==
    CASE variant = "Undefined" -> Lit("null")
      [] variant = "Boolean" -> Lit("boolean")
      [] variant = "Integer" -> Lit("integer")
      [] variant = "Real" -> Lit("real")
      [] variant = "UUID" -> Lit("uuid")
      [] variant = "String" -> Lit("string")
      [] variant = "URI" -> Lit("uri")
      [] variant = "Binary" -> Lit("binary")
      [] variant = "Date" -> Lit("date")
      [] variant = "Map" -> Lit("map")
      [] variant = "Array" -> Lit("array")
Variants ==
    {"Undefined", "Boolean", "Integer", "Real", "UUID", "String", "URI", "Binary",
     "Date", "Map", "Array"}
\* A well-formed content for the element of each variant: true, 42, 123.5,
\* a hyphenated UUID, a, YQ==, 1970-01-01T00:00:00Z, or nothing.
SampleContent(variant) ==
    CASE variant = "Boolean" -> Lit("true")
      [] variant = "Integer" -> i32_to_string(42)
      [] variant = "Real" -> f64_to_string(<<64, 94, 224, 0, 0, 0, 0, 0>>)
      [] variant = "UUID" -> uuid_to_string(SomeUuid)
      [] variant \in {"String", "URI"} -> <<97>>
      [] variant = "Binary" -> base64_encode(<<97>>)
      [] variant = "Date" -> date_to_rfc3339(0)
      [] OTHER -> <<>>

\* Integer(42) inside n arrays of one element, in the binary format, and
\* inside n maps of one entry "a", in the text format.
RECURSIVE NestedBinary(_)
NestedBinary(n) ==
    IF n = 0 THEN generate_value(Integer(42), 0)
    ELSE <<TagArray>> \o ToLeBytes(1, 4) \o NestedBinary(n - 1) \o <<TagArrayEnd>>
RECURSIVE NestedText(_)
NestedText(n) ==
    IF n = 0 THEN LeafElement(Integer(42))
    ELSE Element(Lit("map"), Element(Lit("key"), <<97>>) \o NestedText(n - 1))

\* ------------------------------------------------------------ the state
VARIABLES
    tree,     \* the value tree the caller holds
    msg,      \* the byte buffer the caller holds
    origin,   \* how msg came about: a record with a field kind
    op,       \* the operation that ran last
    route,    \* the route LLSDValue::parse took, when it ran last
    out       \* the Result of the operation that ran last

vars == <<tree, msg, origin, op, route, out>>

NoResult == [ok |-> FALSE, err |-> "none"]

Init ==
    /\ tree = Undefined
    /\ msg = <<>>
    /\ origin = [kind |-> "none"]
    /\ op = "new"
    /\ route = "none"
    /\ out = NoResult

\* The caller constructs a value tree.
Construct(v) ==
    /\ tree' = v
    /\ msg' = <<>>
    /\ origin' = [kind |-> "none"]
    /\ op' = "construct"
    /\ route' = "none"
    /\ out' = NoResult

\* binary::to_bytes(&tree)
ToBytes(iter) ==
    /\ op = "construct"
    /\ LET r == to_bytes(tree, iter)
       IN  /\ out' = r
           /\ msg' = r.val
    /\ origin' = [kind |-> "to_bytes"]
    /\ op' = "to_bytes"
    /\ UNCHANGED <<tree, route>>

\* xml::pretty(&tree, spaces)
Pretty(spaces) ==
    /\ op = "construct"
    /\ LET r == pretty(tree, spaces)
       IN  /\ out' = r
           /\ msg' = IF r.ok THEN r.val ELSE <<>>
    /\ origin' = [kind |-> "pretty"]
    /\ op' = "xml::pretty"
    /\ UNCHANGED <<tree, route>>

\* The message loses its last n bytes on the way (the prefix and the first
\* type byte arrive).
Truncate(n) ==
    /\ origin.kind = "to_bytes"
    /\ op = "to_bytes"
    /\ n < Len(msg) - Len(LLSDBINARYPREFIX)
    /\ msg' = SubSeq(msg, 1, Len(msg) - n)
    /\ origin' = [kind |-> "truncated"]
    /\ op' = "receive"
    /\ out' = NoResult
    /\ UNCHANGED <<tree, route>>

Received(buffer, how) ==
    /\ op = "new"
    /\ msg' = buffer
    /\ origin' = how
    /\ op' = "receive"
    /\ out' = NoResult
    /\ UNCHANGED <<tree, route>>

\* A buffer arrives that holds an encoded value without the prefix.
ReceiveHeaderless(v) ==
    Received(generate_value(v, 0), [kind |-> "headerless"])

\* A buffer arrives whose prefix is cut short after n bytes, or complete but
\* with byte n changed and followed by an encoded value.
ReceiveDamagedPrefix(n, short) ==
    IF short
    THEN Received(SubSeq(LLSDBINARYPREFIX, 1, n - 1), [kind |-> "short_prefix"])
    ELSE Received([LLSDBINARYPREFIX EXCEPT ![n] = (@ + 1) % 256]
                      \o generate_value(Integer(42), 0),
                  [kind |-> "bad_prefix"])

\* A buffer arrives that begins and ends with a bracket byte.
ReceiveBrackets(first, middle, last) ==
    Received(<<first>> \o middle \o <<last>>, [kind |-> "brackets"])

\* A map literal arrives, binary or text, whose keys may repeat.
ReceiveBinaryMap(entries) ==
    Received(BinaryMapLiteral(entries), [kind |-> "binary_map", entries |-> entries])
ReceiveTextMap(entries) ==
    Received(TextMapLiteral(entries), [kind |-> "text_map", entries |-> entries])

\* A text arrives that is in none of the formats: n letters, one
\* character of 1 to 4 bytes, and a tail.
Repeat(b, n) == [i \in 1..n |-> b]
Characters == {<<97>>, <<195, 169>>, <<226, 130, 172>>, <<240, 159, 152, 128>>}
ReceivePlainText(n, ch, tail) ==
    Received(Repeat(97, n) \o ch \o tail, [kind |-> "plain_text"])

\* A document arrives in which an end tag does not name the open element.
ReceiveMismatch(where, close) ==
    Received(MismatchDocument(where, close), [kind |-> "mismatch", where |-> where])

\* An array document arrives.
ReceiveTextArray(items) ==
    Received(TextArrayLiteral(items), [kind |-> "text_array", items |-> items])

\* A document arrives that holds the element of one variant.
ReceiveElement(variant) ==
    Received(Document(Element(ElementName(variant), SampleContent(variant))),
             [kind |-> "element", variant |-> variant])

\* The contents tried in a Boolean element: 0, 1, true, false, TRUE, yes
\* and the empty text.
BooleanTexts ==
    {<<48>>, <<49>>, Lit("true"), Lit("false"), <<84, 82, 85, 69>>,
     <<121, 101, 115>>, <<>>}
\* A document arrives that holds a <bool> element, the Boolean element the
\* decoder reads.
ReceiveBoolean(text) ==
    Received(Document(Element(Lit("bool"), text)), [kind |-> "bool", text |-> text])

\* A document arrives that holds a <uuid> element: empty, blank, or with
\* the hyphenated form of a UUID.
UuidTexts ==
    {<<>>, <<32>>, <<32, 10>>, uuid_to_string(SomeUuid), uuid_to_string(NilUuid)}
ReceiveUuid(text) ==
    Received(Document(Element(Lit("uuid"), text)), [kind |-> "uuid", text |-> text])

\* A message arrives whose composites are nested n deep.
ReceiveNested(n, binary) ==
    Received(IF binary THEN LLSDBINARYPREFIX \o NestedBinary(n)
             ELSE Document(NestedText(n)),
             [kind |-> "nested", depth |-> n, binary |-> binary])

\* A binary composite arrives: the prefix, the opening tag, a declared
\* count, the entries, and whatever bytes stand where the terminator belongs.
\* For an array the keys of the entries are left out.
RECURSIVE BinaryItems(_)
BinaryItems(entries) ==
    IF entries = <<>> THEN <<>>
    ELSE generate_value(entries[1][2], 0) \o BinaryItems(Tail(entries))
ReceiveComposite(opentag, declared, entries, closer) ==
    Received(LLSDBINARYPREFIX \o <<opentag>> \o ToLeBytes(declared, 4)
             \o (IF opentag = TagMap THEN BinaryEntries(entries)
                 ELSE BinaryItems(entries))
             \o closer,
             [kind |-> "composite", opentag |-> opentag, declared |-> declared,
              entries |-> entries, closer |-> closer])

\* A buffer arrives that starts with the binary sentinel: the sentinel
\* and then a full binary message, a text document, or nothing.
AfterSentinel ==
    {LLSDBINARYPREFIX \o generate_value(v, 0) : v \in Leaves}
    \cup {TextMapLiteral(<<<<<<97>>, Integer(42)>>>>), <<>>}
ReceiveSentinel(rest) ==
    Received(LLSDBINARYSENTINEL \o rest, [kind |-> "sentinel", rest |-> rest])

\* The elements placed at the root of a document: <integer>1</integer>,
\* <string>a</string>, <map></map> and a map of one entry.
RootElements ==
    {Element(Lit("integer"), <<49>>), Element(Lit("string"), <<97>>),
     Element(Lit("map"), <<>>),
     Element(Lit("map"),
             Element(Lit("key"), <<107>>) \o Element(Lit("integer"), <<50>>))}
\* the root elements one after the other, each followed by a line feed
RECURSIVE RootsBody(_)
RootsBody(roots) ==
    IF roots = <<>> THEN <<>>
    ELSE roots[1] \o <<10>> \o RootsBody(Tail(roots))
\* A text document arrives whose <llsd> wrapper holds the given root
\* elements: none, one, or several.
ReceiveRoots(roots) ==
    Received(Document(RootsBody(roots)), [kind |-> "roots", roots |-> roots])

\* The documents that are cut short: an integer, a map of one string, a
\* map in a map, and an array of one integer.
CutDocuments ==
    {Document(Element(Lit("integer"), <<49>>)),
     Document(Element(Lit("map"),
                      Element(Lit("key"), <<107>>) \o Element(Lit("string"), <<97>>))),
     Document(Element(Lit("map"),
                      Element(Lit("key"), <<107>>)
                      \o Element(Lit("map"),
                                 Element(Lit("key"), <<106>>)
                                 \o Element(Lit("integer"), <<50>>)))),
     Document(Element(Lit("array"), Element(Lit("integer"), <<49>>)))}
\* Only the first n bytes of a text document arrive.
ReceiveCut(doc, n) ==
    Received(SubSeq(doc, 1, n), [kind |-> "cut", doc |-> doc])

\* The values tried in the encoding attribute of a binary element: the
\* three known ones, base32, BASE64, hex and the empty value.
Encodings ==
    {Lit("base64"), Lit("base16"), Lit("base85"), <<98, 97, 115, 101, 51, 50>>,
     <<66, 65, 83, 69, 54, 52>>, <<104, 101, 120>>, <<>>}
\* The payloads tried: YQ== (base64 of "a"), 61 (base16 of "a"), @/
\* (base85 of "a") and YWJj (base64 of "abc").
Payloads == {<<89, 81, 61, 61>>, <<54, 49>>, <<64, 47>>, <<89, 87, 74, 106>>}
\* the text after the element name: an unrelated attribute if other is set,
\* then the encoding attribute if there is one
BinaryAttrs(enc, other) ==
    (IF other
     THEN <<32, 111, 116, 104, 101, 114, 61, 34>> \o Lit("base16") \o <<34>>
     ELSE <<>>)
    \o (IF enc.some
        THEN <<32>> \o Lit("encoding") \o <<61, 34>> \o enc.v \o <<34>>
        ELSE <<>>)
\* A document arrives that holds one binary element.
ReceiveBinaryElement(enc, other, payload) ==
    Received(Document(Tagged(Lit("binary") \o BinaryAttrs(enc, other),
                             Lit("binary"), payload)),
             [kind |-> "binary_element", enc |-> enc, payload |-> payload])

\* The entry counts declared beyond what the buffer holds: 255 and 2^31 - 1.
Counts == {255, 2147483647}
\* A binary map or array arrives that declares count entries and holds the
\* given ones, then its terminator.
ReceiveCounted(opentag, count, entries) ==
    Received(LLSDBINARYPREFIX \o <<opentag>> \o ToLeBytes(count, 4)
             \o (IF opentag = TagMap THEN BinaryEntries(entries)
                 ELSE BinaryItems(entries))
             \o <<IF opentag = TagMap THEN TagMapEnd ELSE TagArrayEnd>>,
             [kind |-> "counted", opentag |-> opentag, count |-> count,
              entries |-> entries])

Decoded(name) ==
    /\ op \in {"to_bytes", "xml::pretty", "receive"}
    /\ op = "xml::pretty" => out.ok
    /\ op' = name
    /\ UNCHANGED <<tree, msg, origin>>

\* binary::parse(&msg)
BinaryParse ==
    /\ Decoded("binary::parse")
    /\ out' = binary_parse(msg)
    /\ route' = "none"

\* xml::parse(&msg); a str is well-formed UTF-8
IsStr(m) == Utf8Valid(m) = TRUE
XmlParse ==
    /\ Decoded("xml::parse")
    /\ IsStr(msg)
    /\ out' = xml_parse(msg)
    /\ route' = "none"

\* LLSDValue::parse(&msg)
LLSDParse ==
    /\ Decoded("LLSDValue::parse")
    /\ out' = LLSDValue_parse(msg)
    /\ route' = LLSDValue_route(msg)

Next ==
    \/ \E v \in Values : Construct(v)
    \/ \E iter \in {0, 1} : ToBytes(iter)
    \/ \E spaces \in {0, 4} : Pretty(spaces)
    \/ \E n \in 1..MaxCut : Truncate(n)
    \/ \E v \in Values : ReceiveHeaderless(v)
    \/ \E n \in 1..Len(LLSDBINARYPREFIX), short \in BOOLEAN : ReceiveDamagedPrefix(n, short)
    \/ \E first \in {TagMap, TagArray}, last \in {TagMap, TagArray, TagMapEnd, TagArrayEnd},
          middle \in {<<>>, Zeros(4)} : ReceiveBrackets(first, middle, last)
    \/ \E entries \in EntryLists : ReceiveBinaryMap(entries)
    \/ \E entries \in EntryLists : ReceiveTextMap(entries)
    \/ \E n \in {0, SnippetChars - 2, SnippetChars - 1, SnippetChars},
          ch \in Characters, tail \in {<<>>, <<98>>, <<195, 169>>} :
             ReceivePlainText(n, ch, tail)
    \/ \E where \in {"primitive", "key", "entry", "map", "array", "llsd"},
          close \in {Complex, Lit("string")} : ReceiveMismatch(where, close)
    \/ \E items \in SeqsUpTo(Leaves, MaxLen) : ReceiveTextArray(items)
    \/ \E variant \in Variants : ReceiveElement(variant)
    \/ \E text \in BooleanTexts : ReceiveBoolean(text)
    \/ \E text \in UuidTexts : ReceiveUuid(text)
    \/ \E n \in {1, 2, MaxDepth}, binary \in BOOLEAN : ReceiveNested(n, binary)
    \/ \E opentag \in {TagMap, TagArray}, declared \in 0..MaxLen,
          entries \in EntryLists \cup {<<>>},
          closer \in {<<>>, <<TagMapEnd>>, <<TagArrayEnd>>, <<TagUndefined>>} :
             ReceiveComposite(opentag, declared, entries, closer)
    \/ \E rest \in AfterSentinel : ReceiveSentinel(rest)
    \/ \E roots \in SeqsUpTo(RootElements, MaxLen) : ReceiveRoots(roots)
    \/ \E doc \in CutDocuments : \E n \in 1..(Len(doc) - 1) : ReceiveCut(doc, n)
    \/ \E enc \in {None} \cup {Some(e) : e \in Encodings}, other \in BOOLEAN,
          payload \in Payloads : ReceiveBinaryElement(enc, other, payload)
    \/ \E opentag \in {TagMap, TagArray}, count \in Counts,
          entries \in EntryLists \cup {<<>>} : ReceiveCounted(opentag, count, entries)
    \/ BinaryParse
    \/ XmlParse
    \/ LLSDParse

Spec == Init /\ [][Next]_vars

\* --------------------------------------------------------------- claims
HasPrefix(m) ==
    /\ Len(m) >= Len(LLSDBINARYPREFIX)
    /\ \A i \in 1..Len(LLSDBINARYPREFIX) : m[i] = LLSDBINARYPREFIX[i]

\* C1: binary round trip: binary::parse of binary::to_bytes(v) succeeds and
\* returns a tree equal to v, whatever order the map entries were written in.
C1_BinaryRoundTrip ==
    (op = "binary::parse" /\ origin.kind = "to_bytes") => out = Ok(tree)
C1_Witness ==
    /\ op = "binary::parse" /\ origin.kind = "to_bytes" /\ out.ok
    /\ tree.t = "Array" /\ Len(tree.v) = 2
    /\ tree.v[1].t = "Map" /\ DOMAIN tree.v[1].v # {}

\* C2: text round trip: the text encoder succeeds on every tree and the text
\* decoder returns an equal tree from its output.
C2_TextRoundTrip ==
    /\ op = "xml::pretty" => out.ok
    /\ (op = "xml::parse" /\ origin.kind = "pretty") => out = Ok(tree)

\* C3: the dispatcher decodes the full binary message of a tree to that tree.
C3_DispatchBinary ==
    (op = "LLSDValue::parse" /\ origin.kind = "to_bytes") => out = Ok(tree)

\* C4: the dispatcher recognizes the text encoder's output as text and
\* decodes it to the encoded tree.
C4_DispatchText ==
    (op = "LLSDValue::parse" /\ origin.kind = "pretty")
        => (route = "xml" /\ out = Ok(tree))

\* C5: a buffer without the binary sentinel whose first and last bytes are a
\* matching bracket pair is routed to headerless binary decode.
MatchingBrackets(m) ==
    /\ Len(m) > 1
    /\ <<m[1], m[Len(m)]>> \in {<<TagMap, TagMapEnd>>, <<TagArray, TagArrayEnd>>}
C5_HeaderlessRoute ==
    (op = "LLSDValue::parse" /\ ~StartsWith(msg, LLSDBINARYSENTINEL) /\ MatchingBrackets(msg))
        => route = "binary_whole"

\* C6: a binary message cut inside the payload of a primitive (a fixed-width
\* field, a length, or the bytes a length announces) is a decode error.
C6_TruncatedIsError ==
    (op = "binary::parse" /\ origin.kind = "truncated" /\ tree.t \notin {"Map", "Array"})
        => ~out.ok

\* C7: the encoder writes a 'k' byte before every map key, and the decoder
\* rejects a map entry that lacks it.
C7_KeyMarker ==
    /\ (op = "to_bytes" /\ tree.t = "Map" /\ DOMAIN tree.v # {})
            => msg[Len(LLSDBINARYPREFIX) + 6] = KeyMarker
    /\ (op = "binary::parse" /\ origin.kind = "binary_map"
        /\ msg[Len(LLSDBINARYPREFIX) + 6] # KeyMarker) => ~out.ok

\* C8: fixed-width fields are written most significant byte first, so that
\* Integer(i) is 'i' followed by the four bytes of i, big-endian.
C8_BigEndian ==
    (op = "to_bytes" /\ tree.t = "Integer")
        => msg = LLSDBINARYPREFIX \o <<TagInteger>> \o Reverse(ToLeBytes(tree.v, 4))

\* C9: binary::parse returns an error for every buffer that does not begin
\* with the prefix to_bytes emits, buffers shorter than the prefix included.
C9_SentinelValidated ==
    (op = "binary::parse" /\ ~HasPrefix(msg)) => ~out.ok
C9_Witness ==
    /\ op = "binary::parse" /\ origin.kind = "bad_prefix" /\ ~out.ok
    /\ msg[Len(LLSDBINARYPREFIX)] # LLSDBINARYPREFIX[Len(LLSDBINARYPREFIX)]

\* C10: a map literal with a repeated key, binary or text, decodes to a Map
\* that holds for every key the value written last.
LastWins(entries) ==
    LET ks == {entries[i][1] : i \in DOMAIN entries}
        last(k) == CHOOSE i \in DOMAIN entries :
                      /\ entries[i][1] = k
                      /\ \A j \in DOMAIN entries : entries[j][1] = k => j <= i
    IN  [k \in ks |-> entries[last(k)][2]]
C10_DuplicateKeys ==
    (op \in {"binary::parse", "xml::parse"}
     /\ origin.kind = (IF op = "binary::parse" THEN "binary_map" ELSE "text_map"))
        => out = Ok(Map(LastWins(origin.entries)))
C10_Witness ==
    /\ op = "xml::parse" /\ origin.kind = "text_map" /\ out.ok
    /\ Len(origin.entries) = 2
    /\ origin.entries[1][1] = origin.entries[2][1]
    /\ origin.entries[1][2] # origin.entries[2][2]
    /\ out.val.v[origin.entries[1][1]] = origin.entries[2][2]

\* the number of characters of a well-formed UTF-8 text
CharCount(bs) == Cardinality({i \in DOMAIN bs : ~IsCont(bs[i])})
IsPrefixOf(a, bs) == Len(a) <= Len(bs) /\ a = SubSeq(bs, 1, Len(a))

C12_TagMismatch ==
    (op \in {"xml::parse", "LLSDValue::parse"} /\ origin.kind = "mismatch") => ~out.ok
C12_Witness ==
    /\ op = "xml::parse"
    /\ origin.kind = "mismatch" /\ origin.where = "primitive"
    /\ EndsWith(msg, Lit("integer") \o <<62, 50, 60, 47>> \o Complex \o <<62, 60, 47>>
                      \o Lit("llsd") \o <<62>>)
    /\ ~out.ok

\* C13: an <array> element holding n >= 0 well-formed elements decodes to
\* the Array of those n values in document order.
C13_TextArray ==
    (op = "xml::parse" /\ origin.kind = "text_array") => out = Ok(Array(origin.items))

\* C14: the text codec maps element names to variants one to one: decoding
\* the element named for a variant yields that variant, and encoding a
\* variant writes the element of that name.
C14_ElementNames ==
    /\ (op = "xml::parse" /\ origin.kind = "element")
          => (out.ok /\ out.val.t = origin.variant)
    /\ op = "xml::pretty"
          => (out.ok /\ StartsWith(out.val, <<60>> \o ElementName(tree.t) \o <<62>>))

\* C15: the text decoder accepts exactly the contents 0, 1, true and false
\* in a Boolean element: 1 and true yield Boolean(true), 0 and false yield
\* Boolean(false), any other content is an error.
C15_BooleanLiterals ==
    (op = "xml::parse" /\ origin.kind = "bool")
    => /\ origin.text \in {<<49>>, Lit("true")} => out = Ok(Boolean(TRUE))
       /\ origin.text \in {<<48>>, Lit("false")} => out = Ok(Boolean(FALSE))
       /\ origin.text \notin {<<48>>, <<49>>, Lit("true"), Lit("false")} => ~out.ok

\* C16: a uuid element whose content is empty or only white space decodes
\* to the all-zero UUID.
C16_EmptyUuid ==
    (op = "xml::parse" /\ origin.kind = "uuid" /\ trim(origin.text) = <<>>)
    => out = Ok(UUID(NilUuid))

\* C17: both decoders enforce a maximum nesting depth.  Whatever the
\* maximum is, if it lies below MaxDepth then the message nested MaxDepth
\* deep is refused by the decoder of its format.
C17_DepthGuard ==
    (/\ origin.kind = "nested" /\ origin.depth = MaxDepth
     /\ op = (IF origin.binary THEN "binary::parse" ELSE "xml::parse"))
    => ~out.ok

Terminator(opentag) == IF opentag = TagMap THEN TagMapEnd ELSE TagArrayEnd
CompositeOf(opentag, entries) ==
    IF opentag = TagMap THEN Map(LastWins(entries))
    ELSE Array([i \in DOMAIN entries |-> entries[i][2]])

\* C18: a binary Map or Array is decoded by reading the declared count and
\* that many entries, after which the next byte must be the matching
\* terminator: with it the composite of the entries is returned, with any
\* other byte there, or none, the decode is an error.
C18_Terminator ==
    (op = "binary::parse" /\ origin.kind = "composite")
    => /\ (/\ origin.declared = Len(origin.entries)
           /\ origin.closer = <<Terminator(origin.opentag)>>)
          => out = Ok(CompositeOf(origin.opentag, origin.entries))
       /\ (/\ origin.declared <= Len(origin.entries)
           /\ origin.closer # <<Terminator(origin.opentag)>>)
          => ~out.ok
       /\ origin.declared < Len(origin.entries) => ~out.ok
C18_Witness ==
    /\ op = "binary::parse"
    /\ origin.kind = "composite" /\ origin.opentag = TagMap
    /\ origin.declared = 2 /\ Len(origin.entries) = 2
    /\ origin.closer = <<TagArrayEnd>>
    /\ out = Err("MapNotEnded")

\* C19: for a buffer that starts with the binary sentinel, LLSDValue::parse
\* takes the binary route and returns what the binary decoder returns for
\* the bytes it is handed, value or error; no other route is tried.
C19_NoFallback ==
    (op = "LLSDValue::parse" /\ StartsWith(msg, LLSDBINARYSENTINEL))
    => /\ route = "binary"
       /\ out = binary_parse(SubSeq(msg, Len(LLSDBINARYSENTINEL) + 1, Len(msg)))
C19_Witness ==
    /\ op = "LLSDValue::parse"
    /\ origin.kind = "sentinel"
    /\ StartsWith(origin.rest, XmlDeclaration)
    /\ out = Err("WrongHeader")

\* C20: single root value.  When the <llsd> wrapper of a text document
\* holds more than one typed element, xml::parse returns an error: neither
\* the first nor the last (nor any other) of the root values is returned.
C20_SingleRoot ==
    (/\ origin.kind = "roots"
     /\ Len(origin.roots) > 1
     /\ op = "xml::parse")
        => /\ ~out.ok
           /\ \A k \in 1..Len(origin.roots) :
                  out # xml_parse(Document(origin.roots[k]))
\* a document of two root elements, each of which decodes alone, has been
\* decoded by xml::parse and the outcome is the error for an element that
\* is not <llsd>
C20_Witness ==
    /\ origin.kind = "roots"
    /\ Len(origin.roots) = 2
    /\ \A k \in 1..2 : xml_parse(Document(origin.roots[k])).ok
    /\ op = "xml::parse"
    /\ out = Err("ExpectedLlsd")

\* The elements other than the <llsd> wrapper whose start tag the reader
\* has read in bs and whose end tag it has not, outermost first.
OpenElements(bs) ==
    SelectSeq(advance_by(bs, Step(<<>>, 1, <<>>, FALSE), Len(bs), TRUE).opened,
              LAMBDA name : name # Lit("llsd"))
\* bs ends inside an end tag: after its last '<' come a '/' and no '>'.
EndsInEndTag(bs) ==
    LET j == LastOf({i \in DOMAIN bs : bs[i] = 60}, 0)
    IN  /\ j > 0
        /\ j < Len(bs)
        /\ bs[j + 1] = 47
        /\ \A i \in j..Len(bs) : bs[i] # 62

\* C21: end of input inside an open element.  When a text document ends
\* while a primitive element, a key, a map or an array is open, xml::parse
\* returns an error and no value.  (A document that ends inside an end tag
\* is left out: whether that tag has been read is the reader's affair.)
C21_OpenAtEof ==
    (/\ origin.kind = "cut"
     /\ op = "xml::parse"
     /\ OpenElements(msg) # <<>>
     /\ ~EndsInEndTag(msg))
        => ~out.ok
\* a document that ends after <map><key>k</key><string>a</string>, so with
\* the map open and an entry already read, has been decoded by xml::parse
\* and the outcome is the error for the end of data
C21_Witness ==
    /\ origin.kind = "cut"
    /\ op = "xml::parse"
    /\ OpenElements(msg) = <<Lit("map")>>
    /\ EndsWith(msg, Element(Lit("string"), <<97>>))
    /\ out = Err("UnexpectedEndOfData")

\* The payload decoder the encoding attribute selects, applied to text.
SelectedDecoder(enc, text) ==
    CASE ~enc.some \/ enc.v = Lit("base64") -> base64_decode(text)
      [] enc.some /\ enc.v = Lit("base16") -> hex_decode(text)
      [] enc.some /\ enc.v = Lit("base85") -> ascii85_decode(text)
      [] OTHER -> Err("NoDecoder")

\* C22: binary payload encoding selection.  A binary element is decoded
\* with base64 when it has no encoding attribute or encoding="base64", with
\* base16 for "base16" and with base85 for "base85": the outcome is the
\* Binary of what that decoder yields, or an error when it fails.  Every
\* other value of the attribute gives an error and no Binary value.
C22_EncodingSelection ==
    (origin.kind = "binary_element" /\ op = "xml::parse")
        => /\ out.ok = SelectedDecoder(origin.enc, origin.payload).ok
           /\ out.ok =>
                  out.val = Binary(SelectedDecoder(origin.enc, origin.payload).val)
\* <binary encoding="base16">61</binary> has been decoded by xml::parse to
\* the one byte 0x61, which base64 would have refused
C22_Witness ==
    /\ origin.kind = "binary_element"
    /\ op = "xml::parse"
    /\ origin.enc = Some(Lit("base16"))
    /\ origin.payload = <<54, 49>>
    /\ ~base64_decode(origin.payload).ok
    /\ out = Ok(Binary(<<97>>))

\* every call or iteration of spans leaves the cursor where it found it or
\* further on, never past the end of the buffer, and further on by at least
\* one byte unless it returns an error
Advances(spans, buffer) ==
    \A i \in DOMAIN spans :
        /\ spans[i].from <= spans[i].to
        /\ spans[i].to <= Len(buffer)
        /\ spans[i].ok => spans[i].from < spans[i].to

\* C23: binary decode terminates on every finite buffer.  Every call of
\* parse_value and every iteration of a map or array entry loop that
\* binary::parse makes leaves the read cursor not behind where it found it
\* and not past the end of the buffer, and ahead by at least one byte unless
\* it returns an error.  binary::parse ends with a value or an error, and
\* the calls and the iterations are each no more than the bytes of the
\* buffer, whatever count is declared: the calls are at most the bytes after
\* the prefix and one more (the call that meets the end), the iterations at
\* most the bytes after the prefix.
C23_Terminates ==
    (op = "binary::parse" /\ StartsWith(msg, LLSDBINARYPREFIX))
        => /\ Advances(parse_value_work(msg, Len(LLSDBINARYPREFIX)).calls, msg)
           /\ Advances(parse_value_work(msg, Len(LLSDBINARYPREFIX)).iters, msg)
           /\ out.ok \in BOOLEAN
           /\ Len(parse_value_work(msg, Len(LLSDBINARYPREFIX)).calls)
                  <= Len(msg) - Len(LLSDBINARYPREFIX) + 1
           /\ Len(parse_value_work(msg, Len(LLSDBINARYPREFIX)).iters)
                  <= Len(msg) - Len(LLSDBINARYPREFIX)
\* an array that declares 2^31 - 1 entries and holds two has been decoded
\* by binary::parse: three calls of parse_value succeeded, the fourth met
\* the terminator, and the outcome is an error
C23_Witness ==
    /\ op = "binary::parse"
    /\ origin.kind = "counted"
    /\ origin.opentag = TagArray
    /\ origin.count = 2147483647
    /\ Len(origin.entries) = 2
    /\ Len(parse_value_work(msg, Len(LLSDBINARYPREFIX)).calls) = 4
    /\ Len(parse_value_work(msg, Len(LLSDBINARYPREFIX)).iters) = 3
    /\ ~out.ok
====
